---- MODULE Spec2Model ----
(***************************************************************************)
(* Model of the cache-first retrieval facade of src/tools/api.py and of    *)
(* the provider adapter src/tools/ibkr.py.                                 *)
(*                                                                         *)
(* Strings are sequences of atoms.  An atom is a piece of text without the *)
(* character "_", or the one-character text "_" itself, so that the        *)
(* concatenation of two strings is \o and two strings are equal exactly    *)
(* when their sequences are equal.                                         *)
(* An optional value (Python None or a value) is <<>> or <<v>>.            *)
(***************************************************************************)
EXTENDS Integers, Sequences, FiniteSets, TLC

(***************************************************************************)
(* Bounds                                                                  *)
(***************************************************************************)
\* largest number of bars the provider returns for one request
MaxRows == 1
\* last day of the wall clock, which starts on day 1
LastDay == 2

\* largest number of bars the provider returns to a concurrent caller
MaxConcRows == 2

(***************************************************************************)
(* Python values                                                           *)
(***************************************************************************)
None == <<>>
Some(v) == <<v>>

\* bool(x) for an optional string, an optional list or a list
Truthy(opt) == opt # None /\ opt[1] # <<>>

DigitChars == <<"0", "1", "2", "3", "4", "5", "6", "7", "8", "9">>

\* str(n) for a natural number
RECURSIVE IntToStr(_)
IntToStr(n) ==
    IF n < 10 THEN <<DigitChars[n + 1]>>
    ELSE IntToStr(n \div 10) \o <<DigitChars[(n % 10) + 1]>>

DigitValue(c) == (CHOOSE i \in 1..10 : DigitChars[i] = c) - 1

IsDigit(c) == \E i \in 1..10 : DigitChars[i] = c

\* does float(text) succeed (texts of the model: digit strings and words)
IsNumeric(text) == text # <<>> /\ \A i \in 1..Len(text) : IsDigit(text[i])

\* float(text) of a digit string
RECURSIVE ParseFloat(_)
ParseFloat(text) ==
    IF Len(text) = 0 THEN 0
    ELSE 10 * ParseFloat(SubSeq(text, 1, Len(text) - 1)) + DigitValue(text[Len(text)])

\* strftime("%Y-%m-%d") of day d of the month the model runs in
DayStr(d) == <<"2024-01-">> \o (IF d < 10 THEN <<"0">> ELSE <<>>) \o IntToStr(d)

\* strptime(s, "%Y-%m-%d") succeeds
IsDate(s) == \E d \in 1..31 : s = DayStr(d)

\* strftime("%Y-%m-%d %H:%M:%S") of the midnight of day d
TimeStr(d) == DayStr(d) \o <<" ", "00:00:00">>

(***************************************************************************)
(* Inputs of the calls                                                     *)
(***************************************************************************)
Tickers == {<<"A">>, <<"A", "_", "B">>}

\* start_date of get_prices: a date, and a text that is not a date
StartDates == {DayStr(1), <<"B", "_">> \o DayStr(1)}

PriceEndDates == {DayStr(2)}

\* end_date of get_financial_metrics and get_market_cap
EndDates == {DayStr(1)}

\* (ticker, period) of get_financial_metrics
TickerPeriods ==
    { <<<<"A", "_", "B">>, <<"ttm">>>>, <<<<"A">>, <<"B", "_", "ttm">>>> }

\* ticker of get_market_cap
MarketCapTickers == { <<"A", "_", "B">> }

Limits == {10}

DefaultPeriod == <<"ttm">>

DefaultLimit == 10

\* bars of the provider (ib_insync BarData): date is a day of the month,
\* volume is a float counted in tenths
Bar(d) ==
    [date |-> d, open |-> 10 + d, high |-> 12 + d, low |-> 9 + d, close |-> 11 + d,
     volume |-> 10 * d + 5]

\* the daily bars of the first n days, n up to MaxRows
BarLists == { [d \in 1..n |-> Bar(d)] : n \in 0..MaxRows }

\* what one reqHistoricalData round trip does: fails, or returns bars
BarResponses ==
    { [raise |-> TRUE, bars |-> <<>>] } \cup
    { [raise |-> FALSE, bars |-> b] : b \in BarLists }

\* an XML document with optional MKTCAP and MarketCap elements
Xml(mktcap, marketcap) == [wellformed |-> TRUE, MKTCAP |-> mktcap, MarketCap |-> marketcap]

\* the fundamentals reports of the provider: no element, only MarketCap,
\* both, an empty MKTCAP, a MKTCAP that is not a number, a MKTCAP of zero,
\* and a text that is not XML
XmlDocs ==
    { Xml(None, None),
      Xml(None, Some(<<"2", "0", "0">>)),
      Xml(Some(<<"1", "5", "0">>), Some(<<"2", "0", "0">>)),
      Xml(Some(<<>>), Some(<<"2", "0", "0">>)),
      Xml(Some(<<"a", "b", "c">>), Some(<<"2", "0", "0">>)),
      Xml(Some(<<"0">>), None),
      [wellformed |-> FALSE, MKTCAP |-> None, MarketCap |-> None] }

\* what one reqFundamentalData round trip does: fails, returns None, or
\* returns a non-empty report (a one-atom string)
ReportResponses ==
    { [raise |-> TRUE, data |-> None], [raise |-> FALSE, data |-> None] } \cup
    { [raise |-> FALSE, data |-> Some(<<d>>)] : d \in XmlDocs }

\* values of the parameter limit of get_financial_metrics
AnyLimits == {0, 1, 10}

\* the queries of get_price_data: one that get_prices makes too, and one whose
\* price cache key is the text of the metrics cache key of ("A_B", "ttm")
PriceDataQueries ==
    { <<<<"A">>, DayStr(1), DayStr(2)>>,
      <<<<"A", "_", "B">>, <<"ttm">>, DayStr(1) \o <<"_", "1", "0">>>> }

(***************************************************************************)
(* src/data/models.py: Price and FinancialMetrics                          *)
(***************************************************************************)
PriceFields == <<"open", "close", "high", "low", "volume", "time">>

\* FinancialMetrics.__fields__: the four identifying fields, market_cap and
\* the other metric fields (two of them stand for all)
MetricsFields ==
    <<"ticker", "report_period", "period", "currency", "market_cap",
      "price_to_earnings_ratio", "revenue_growth">>

\* model_dump(): the dict of a record, as its items in field order
model_dump(obj, fields) == [i \in 1..Len(fields) |-> <<fields[i], obj[fields[i]]>>]

\* Price(**d) / FinancialMetrics(**d): the record of a dict
from_dict(d) ==
    [f \in { d[i][1] : i \in DOMAIN d } |-> d[CHOOSE i \in DOMAIN d : d[i][1] = f][2]]

dump_all(objs, fields) == [i \in DOMAIN objs |-> model_dump(objs[i], fields)]

load_all(dicts) == [i \in DOMAIN dicts |-> from_dict(dicts[i])]

(***************************************************************************)
(* src/data/cache.py: the cache store, one function per section            *)
(***************************************************************************)
\* Cache.get_prices / Cache.get_financial_metrics: stored value or None
cache_get(section, key) == IF key \in DOMAIN section THEN Some(section[key]) ELSE None

\* Cache.set_prices / Cache.set_financial_metrics: overwrite
cache_set(section, key, value) ==
    [k \in DOMAIN section \cup {key} |-> IF k = key THEN value ELSE section[k]]

(***************************************************************************)
(* src/tools/ibkr.py: the provider adapter                                 *)
(***************************************************************************)
\* util.df(bars) followed by the rename of the column date to time
bars_to_df(bars) ==
    [i \in DOMAIN bars |->
        [time |-> bars[i].date, open |-> bars[i].open, high |-> bars[i].high,
         low |-> bars[i].low, close |-> bars[i].close, volume |-> bars[i].volume]]

\* IBKRClient.get_price_history: strptime of both dates, then one round trip
get_price_history(ticker, start_date, end_date, resp) ==
    IF ~IsDate(start_date) \/ ~IsDate(end_date)
    THEN [err |-> "ValueError", df |-> <<>>]
    ELSE IF resp.raise
    THEN [err |-> "transport", df |-> <<>>]
    ELSE [err |-> "none", df |-> bars_to_df(resp.bars)]

\* IBKRClient.get_fundamentals: one round trip, then `data or ""`
get_fundamentals(ticker, report_type, resp) ==
    IF resp.raise
    THEN [err |-> "transport", xml |-> <<>>]
    ELSE [err |-> "none", xml |-> IF Truthy(resp.data) THEN resp.data[1] ELSE <<>>]

(***************************************************************************)
(* src/tools/api.py: the retrieval facade                                  *)
(***************************************************************************)
VARIABLES
    prices_cache,    \* _cache, section prices: cache key -> list of dicts
    metrics_cache,   \* _cache, section financial metrics: cache key -> list of dicts
    clock,           \* the day datetime.now() falls on
    first_fetch,     \* history: price query -> the list its first non-empty fetch returned
    first_metrics,   \* history: metrics query -> the list its first call that returned gave
    last,            \* history: the facade call that ended last
    callers,         \* concurrent use: caller -> the get_prices call it is running
    stores           \* concurrent use: the stores into the prices section, in order

vars == <<prices_cache, metrics_cache, clock, first_fetch, first_metrics, last, callers,
          stores>>

\* the state of the concurrent callers
conc_vars == <<callers, stores>>

\* the record of a finished call: what it returned (ret) or raised (err), the
\* provider calls it made, the cache entries it looked up and stored;
\* day is the day it ran on, cached tells whether its cache key was stored
\* when it began, first whether it is the first non-empty fetch of its query
Call(op, args, o, cached, first) ==
    [op |-> op, args |-> args, ret |-> o.ret, err |-> o.err, calls |-> o.calls,
     reads |-> o.reads, writes |-> o.writes, day |-> clock, cached |-> cached,
     first |-> first]

\* f"{ticker}_{start_date}_{end_date}"
prices_cache_key(ticker, start_date, end_date) ==
    ticker \o <<"_">> \o start_date \o <<"_">> \o end_date

\* f"{ticker}_{period}_{end_date}_{limit}"
metrics_cache_key(ticker, period, end_date, limit) ==
    ticker \o <<"_">> \o period \o <<"_">> \o end_date \o <<"_">> \o IntToStr(limit)

\* a lookup that never finds anything
cache_hit_never(cached_data) == FALSE

\* `if cached_data := _cache.get_...(cache_key)`
cache_hit(cached_data) == Truthy(cached_data)

\* the list comprehension of get_prices: one Price per row of the frame
normalize_prices(df) ==
    [i \in DOMAIN df |->
        [open |-> df[i].open, close |-> df[i].close, high |-> df[i].high,
         low |-> df[i].low, volume |-> df[i].volume \div 10,
         time |-> TimeStr(df[i].time)]]

\* the check of the empty list left out
prices_cacheable_always(prices) == TRUE

\* `if not prices: return []` - only a non-empty list goes on to the cache
prices_cacheable(prices) == prices # <<>>

\* every exception swallowed
propagates_never(err) == FALSE

\* an exception of the provider call is not caught: the call ends with it
propagates(err) == err # "none"

\* root.findtext(".//TAG"): None without the element, else its text
findtext(doc, tag) == doc[tag]

\* Python `a or b`
PyOr(a, b) == IF Truthy(a) THEN a ELSE b

\* the two fields tried in the other order
select_market_cap_text_swapped(doc) ==
    PyOr(findtext(doc, "MarketCap"), findtext(doc, "MKTCAP"))

\* root.findtext(".//MKTCAP") or root.findtext(".//MarketCap")
select_market_cap_text(doc) == PyOr(findtext(doc, "MKTCAP"), findtext(doc, "MarketCap"))

\* a text that is not a number read as zero
parse_market_cap_zero(val) ==
    IF Truthy(val) THEN Some(IF IsNumeric(val[1]) THEN ParseFloat(val[1]) ELSE 0) ELSE None

\* `if val: try: float(val) except ValueError: pass`
parse_market_cap(val) ==
    IF Truthy(val) /\ IsNumeric(val[1]) THEN Some(ParseFloat(val[1])) ELSE None

\* the report parsed without the `if xml` guard: the empty text is not XML
metrics_market_cap_unguarded(xml) ==
    IF xml = <<>> \/ ~xml[1].wellformed THEN [err |-> "ParseError", market_cap |-> None]
    ELSE [err |-> "none", market_cap |-> parse_market_cap(select_market_cap_text(xml[1]))]

\* lines 78-85: the market cap of the report of get_financial_metrics;
\* ET.fromstring raises ParseError on a text that is not XML
metrics_market_cap(xml) ==
    IF xml = <<>> THEN [err |-> "none", market_cap |-> None]
    ELSE IF ~xml[1].wellformed THEN [err |-> "ParseError", market_cap |-> None]
    ELSE [err |-> "none", market_cap |-> parse_market_cap(select_market_cap_text(xml[1]))]

\* lines 136-146: the market cap of the live snapshot of get_market_cap
snapshot_market_cap(xml) ==
    IF xml = <<>> THEN [err |-> "none", market_cap |-> None]
    ELSE IF ~xml[1].wellformed THEN [err |-> "ParseError", market_cap |-> None]
    ELSE [err |-> "none", market_cap |-> parse_market_cap(select_market_cap_text(xml[1]))]

\* the metric fields the provider does not supply filled with zero
build_metrics_zero_filled(ticker, end_date, period, market_cap) ==
    [f \in { MetricsFields[i] : i \in DOMAIN MetricsFields } |->
        CASE f = "ticker" -> Some(ticker)
          [] f = "report_period" -> Some(end_date)
          [] f = "period" -> Some(period)
          [] f = "currency" -> Some(<<"USD">>)
          [] f = "market_cap" -> market_cap
          [] OTHER -> Some(0)]

\* lines 70-76 and 87: every field None, then the four identifying fields
\* and the market cap
build_metrics(ticker, end_date, period, market_cap) ==
    [f \in { MetricsFields[i] : i \in DOMAIN MetricsFields } |->
        CASE f = "ticker" -> Some(ticker)
          [] f = "report_period" -> Some(end_date)
          [] f = "period" -> Some(period)
          [] f = "currency" -> Some(<<"USD">>)
          [] f = "market_cap" -> market_cap
          [] OTHER -> None]

\* `if not financial_metrics: return []` - the list always has one record
metrics_cacheable(financial_metrics) == financial_metrics # <<>>

\* the live path never taken
is_today_never(end_date, day) == FALSE

\* end_date == datetime.datetime.now().strftime("%Y-%m-%d")
is_today(end_date, day) == end_date = DayStr(day)

\* the report type of the live path of get_market_cap
snapshot_report_type == "ReportSnapshot"

\* the default report type of IBKRClient.get_fundamentals
default_report_type == "ReportsFinStatements"

\* the market cap handed on as it is, zero included
market_cap_unchecked(market_cap) == market_cap

\* `if not market_cap: return None`
market_cap_or_none(market_cap) ==
    IF market_cap = None \/ market_cap[1] = 0 THEN None ELSE market_cap

\* one call of the provider adapter, as the facade saw it end: the exception
\* it raised or the frame or report it returned
ProviderCall(method, ticker, report_type, err, data) ==
    [method |-> method, ticker |-> ticker, report_type |-> report_type,
     err |-> err, data |-> data,
     outcome |-> IF err # "none" THEN "error" ELSE IF data = <<>> THEN "empty" ELSE "data"]

\* what a call does: its result, its provider calls, its cache accesses and
\* the cache section after it
Outcome(ret, err, calls, reads, writes, cache) ==
    [ret |-> ret, err |-> err, calls |-> calls, reads |-> reads, writes |-> writes,
     cache |-> cache]

\* get_prices, lines 21-49
get_prices_outcome(cache, ticker, start_date, end_date, resp) ==
    LET cache_key == prices_cache_key(ticker, start_date, end_date)
        cached_data == cache_get(cache, cache_key)
        reads == {<<"prices", cache_key>>}
    IN  IF cache_hit(cached_data)
        THEN Outcome(load_all(cached_data[1]), "none", <<>>, reads, {}, cache)
        ELSE
          LET r == get_price_history(ticker, start_date, end_date, resp)
              calls == <<ProviderCall("get_price_history", ticker, "", r.err, r.df)>>
          IN  IF propagates(r.err)
              THEN Outcome(<<>>, r.err, calls, reads, {}, cache)
              ELSE
                LET prices == normalize_prices(r.df)
                IN  IF ~prices_cacheable(prices)
                    THEN Outcome(<<>>, "none", calls, reads, {}, cache)
                    ELSE Outcome(prices, "none", calls, reads, {<<"prices", cache_key>>},
                                 cache_set(cache, cache_key, dump_all(prices, PriceFields)))

\* get_financial_metrics, lines 52-94
get_financial_metrics_outcome(cache, ticker, end_date, period, limit, resp) ==
    LET cache_key == metrics_cache_key(ticker, period, end_date, limit)
        cached_data == cache_get(cache, cache_key)
        reads == {<<"financial_metrics", cache_key>>}
    IN  IF cache_hit(cached_data)
        THEN Outcome(load_all(cached_data[1]), "none", <<>>, reads, {}, cache)
        ELSE
          LET r == get_fundamentals(ticker, default_report_type, resp)
              calls == <<ProviderCall("get_fundamentals", ticker, default_report_type,
                                      r.err, r.xml)>>
              m == metrics_market_cap(r.xml)
          IN  IF propagates(r.err)
              THEN Outcome(<<>>, r.err, calls, reads, {}, cache)
              ELSE IF propagates(m.err)
              THEN Outcome(<<>>, m.err, calls, reads, {}, cache)
              ELSE
                LET financial_metrics ==
                        <<build_metrics(ticker, end_date, period, m.market_cap)>>
                IN  IF ~metrics_cacheable(financial_metrics)
                    THEN Outcome(<<>>, "none", calls, reads, {}, cache)
                    ELSE Outcome(financial_metrics, "none", calls, reads,
                                 {<<"financial_metrics", cache_key>>},
                                 cache_set(cache, cache_key,
                                           dump_all(financial_metrics, MetricsFields)))

\* get_market_cap, lines 128-157
get_market_cap_outcome(cache, ticker, end_date, day, resp) ==
    IF is_today(end_date, day)
    THEN
      LET r == get_fundamentals(ticker, snapshot_report_type, resp)
          calls == <<ProviderCall("get_fundamentals", ticker, snapshot_report_type,
                                  r.err, r.xml)>>
          m == snapshot_market_cap(r.xml)
      IN  IF propagates(r.err)
          THEN Outcome(None, r.err, calls, {}, {}, cache)
          ELSE IF propagates(m.err)
          THEN Outcome(None, m.err, calls, {}, {}, cache)
          ELSE Outcome(m.market_cap, "none", calls, {}, {}, cache)
    ELSE
      LET o == get_financial_metrics_outcome(cache, ticker, end_date, DefaultPeriod,
                                             DefaultLimit, resp)
      IN  IF o.err # "none" \/ o.ret = <<>>
          THEN [o EXCEPT !.ret = None]
          ELSE [o EXCEPT !.ret = market_cap_or_none(o.ret[1]["market_cap"])]

\* search_line_items, get_insider_trades, get_company_news, lines 97-125
\* line items looked up among the cached financial metrics of the ticker
search_line_items_from_cache(cache, ticker, end_date) ==
    LET cache_key == metrics_cache_key(ticker, DefaultPeriod, end_date, DefaultLimit)
        cached_data == cache_get(cache, cache_key)
    IN  Outcome(IF cache_hit(cached_data) THEN load_all(cached_data[1]) ELSE <<>>,
                "none", <<>>, {<<"financial_metrics", cache_key>>}, {}, cache)

search_line_items_outcome(cache, ticker, end_date) ==
    Outcome(<<>>, "none", <<>>, {}, {}, cache)

get_insider_trades_outcome(cache, ticker, end_date) ==
    Outcome(<<>>, "none", <<>>, {}, {}, cache)

get_company_news_outcome(cache, ticker, end_date) ==
    Outcome(<<>>, "none", <<>>, {}, {}, cache)

\* pd.to_datetime of a time text: the day it names
to_datetime(text) == CHOOSE d \in 1..31 : TimeStr(d) = text

\* df.sort_index(): the rows in the order of their Date
RECURSIVE sort_index(_)
sort_index(rows) ==
    IF rows = <<>> THEN <<>>
    ELSE LET i == CHOOSE j \in DOMAIN rows : \A m \in DOMAIN rows :
                      \/ rows[j].Date < rows[m].Date
                      \/ (rows[j].Date = rows[m].Date /\ j <= m)
         IN  <<rows[i]>> \o sort_index([m \in 1..(Len(rows) - 1) |->
                                           IF m < i THEN rows[m] ELSE rows[m + 1]])

\* prices_to_df, lines 160-169: the frame of the dumped prices, indexed and
\* sorted by Date; the frame of no prices has no column time, and
\* df["time"] raises KeyError; the five numeric columns hold numbers, which
\* pd.to_numeric leaves as they are
prices_to_df(prices) ==
    IF prices = <<>> THEN [err |-> "KeyError", df |-> <<>>]
    ELSE [err |-> "none",
          df |-> sort_index([i \in DOMAIN prices |->
                    [Date |-> to_datetime(prices[i].time), open |-> prices[i].open,
                     close |-> prices[i].close, high |-> prices[i].high,
                     low |-> prices[i].low, volume |-> prices[i].volume,
                     time |-> prices[i].time]])]

\* line 175: the frame of the prices a get_prices call returned
price_data_of(o) ==
    IF o.err # "none" THEN o
    ELSE [o EXCEPT !.ret = prices_to_df(o.ret).df, !.err = prices_to_df(o.ret).err]

\* the prices looked up in the section of the financial metrics
get_price_data_in_metrics_section(cache, ticker, start_date, end_date, resp) ==
    price_data_of(get_prices_outcome(metrics_cache, ticker, start_date, end_date, resp))

\* get_price_data, lines 173-175
get_price_data_outcome(cache, ticker, start_date, end_date, resp) ==
    price_data_of(get_prices_outcome(cache, ticker, start_date, end_date, resp))

(***************************************************************************)
(* Actions: one per facade operation, and the passing of midnight          *)
(***************************************************************************)
\* the callers of the concurrent deployment
Callers == {"c1", "c2"}

\* a caller that has not begun its call
Idle ==
    [pc |-> "idle", args |-> <<>>, hit |-> FALSE, prices |-> <<>>, ret |-> <<>>,
     err |-> "none", calls |-> 0]

NoCall ==
    [op |-> "none", args |-> <<>>, ret |-> <<>>, err |-> "none", calls |-> <<>>,
     reads |-> {}, writes |-> {}, day |-> 0, cached |-> FALSE, first |-> FALSE]

Init ==
    /\ prices_cache = <<>>
    /\ metrics_cache = <<>>
    /\ clock = 1
    /\ first_fetch = <<>>
    /\ first_metrics = <<>>
    /\ last = NoCall
    /\ callers = [c \in Callers |-> Idle]
    /\ stores = <<>>

get_prices ==
    \E ticker \in Tickers, start_date \in StartDates, end_date \in PriceEndDates,
       resp \in BarResponses :
        LET o == get_prices_outcome(prices_cache, ticker, start_date, end_date, resp)
            q == <<ticker, start_date, end_date>>
            first == /\ q \notin DOMAIN first_fetch
                     /\ o.err = "none"
                     /\ o.calls # <<>>
                     /\ o.calls[1].outcome = "data"
        IN  /\ prices_cache' = o.cache
            /\ last' = Call("get_prices", q, o,
                            prices_cache_key(ticker, start_date, end_date)
                                \in DOMAIN prices_cache, first)
            /\ first_fetch' =
                 IF first
                 THEN [k \in DOMAIN first_fetch \cup {q} |->
                          IF k = q THEN o.ret ELSE first_fetch[k]]
                 ELSE first_fetch
            /\ UNCHANGED <<metrics_cache, clock, first_metrics, conc_vars>>

get_financial_metrics ==
    \E tp \in TickerPeriods, end_date \in EndDates, limit \in Limits,
       resp \in ReportResponses :
        LET ticker == tp[1]
            period == tp[2]
            o == get_financial_metrics_outcome(metrics_cache, ticker, end_date, period,
                                               limit, resp)
        IN  /\ metrics_cache' = o.cache
            /\ last' = Call("get_financial_metrics", <<ticker, end_date, period, limit>>, o,
                            metrics_cache_key(ticker, period, end_date, limit)
                                \in DOMAIN metrics_cache, FALSE)
            /\ UNCHANGED <<prices_cache, clock, first_fetch, first_metrics, conc_vars>>

get_market_cap ==
    \E ticker \in MarketCapTickers, end_date \in EndDates, resp \in ReportResponses :
        LET o == get_market_cap_outcome(metrics_cache, ticker, end_date, clock, resp)
        IN  /\ metrics_cache' = o.cache
            /\ last' = Call("get_market_cap", <<ticker, end_date>>, o,
                            metrics_cache_key(ticker, DefaultPeriod, end_date, DefaultLimit)
                                \in DOMAIN metrics_cache, FALSE)
            /\ UNCHANGED <<prices_cache, clock, first_fetch, first_metrics, conc_vars>>

search_line_items ==
    \E ticker \in Tickers, end_date \in EndDates :
        LET o == search_line_items_outcome(metrics_cache, ticker, end_date)
        IN  /\ metrics_cache' = o.cache
            /\ last' = Call("search_line_items", <<ticker, end_date>>, o, FALSE, FALSE)
            /\ UNCHANGED <<prices_cache, clock, first_fetch, first_metrics, conc_vars>>

get_insider_trades ==
    \E ticker \in Tickers, end_date \in EndDates :
        LET o == get_insider_trades_outcome(metrics_cache, ticker, end_date)
        IN  /\ metrics_cache' = o.cache
            /\ last' = Call("get_insider_trades", <<ticker, end_date>>, o, FALSE, FALSE)
            /\ UNCHANGED <<prices_cache, clock, first_fetch, first_metrics, conc_vars>>

get_company_news ==
    \E ticker \in Tickers, end_date \in EndDates :
        LET o == get_company_news_outcome(metrics_cache, ticker, end_date)
        IN  /\ metrics_cache' = o.cache
            /\ last' = Call("get_company_news", <<ticker, end_date>>, o, FALSE, FALSE)
            /\ UNCHANGED <<prices_cache, clock, first_fetch, first_metrics, conc_vars>>

get_price_data ==
    \E q \in PriceDataQueries, resp \in BarResponses :
        LET o == get_price_data_outcome(prices_cache, q[1], q[2], q[3], resp)
            \* the list the get_prices call of line 174 returned
            prices == get_prices_outcome(prices_cache, q[1], q[2], q[3], resp).ret
            first == /\ q \notin DOMAIN first_fetch
                     /\ o.err = "none"
                     /\ o.calls # <<>>
                     /\ o.calls[1].outcome = "data"
        IN  /\ prices_cache' = o.cache
            /\ last' = Call("get_price_data", q, o,
                            prices_cache_key(q[1], q[2], q[3]) \in DOMAIN prices_cache,
                            first)
            /\ first_fetch' =
                 IF first
                 THEN [k \in DOMAIN first_fetch \cup {q} |->
                          IF k = q THEN prices ELSE first_fetch[k]]
                 ELSE first_fetch
            /\ UNCHANGED <<metrics_cache, clock, first_metrics, conc_vars>>

\* midnight passes between two calls
Tick ==
    /\ clock < LastDay
    /\ clock' = clock + 1
    /\ UNCHANGED <<prices_cache, metrics_cache, first_fetch, first_metrics, last, conc_vars>>

Next ==
    \/ get_prices
    \/ get_financial_metrics
    \/ get_market_cap
    \/ search_line_items
    \/ get_insider_trades
    \/ get_company_news
    \/ get_price_data
    \/ Tick

Spec == Init /\ [][Next]_vars

\* get_financial_metrics called with any limit, its first return per query
\* kept in first_metrics
get_financial_metrics_any_limit ==
    \E ticker \in MarketCapTickers, end_date \in EndDates, limit \in AnyLimits,
       resp \in ReportResponses :
        LET o == get_financial_metrics_outcome(metrics_cache, ticker, end_date,
                                               DefaultPeriod, limit, resp)
            q == <<ticker, end_date, DefaultPeriod, limit>>
            first == q \notin DOMAIN first_metrics /\ o.err = "none"
        IN  /\ metrics_cache' = o.cache
            /\ last' = Call("get_financial_metrics", q, o,
                            metrics_cache_key(ticker, DefaultPeriod, end_date, limit)
                                \in DOMAIN metrics_cache, first)
            /\ first_metrics' =
                 IF first
                 THEN [k \in DOMAIN first_metrics \cup {q} |->
                          IF k = q THEN o.ret ELSE first_metrics[k]]
                 ELSE first_metrics
            /\ UNCHANGED <<prices_cache, clock, first_fetch, conc_vars>>

NextAnyLimit ==
    \/ get_financial_metrics_any_limit
    \/ get_market_cap
    \/ Tick

\* the calls of get_financial_metrics over the values of limit, among calls
\* of get_market_cap on the day of the end date and after it
SpecAnyLimit == Init /\ [][NextAnyLimit]_vars

(***************************************************************************)
(* Concurrent use: each caller runs one get_prices call in three steps      *)
(***************************************************************************)
\* the price queries of the concurrent callers
ConcQueries == { <<t, DayStr(1), DayStr(2)>> : t \in Tickers }

\* what the provider answers a concurrent caller
ConcBarResponses ==
    { [raise |-> TRUE, bars |-> <<>>] } \cup
    { [raise |-> FALSE, bars |-> [d \in 1..n |-> Bar(d)]] : n \in 0..MaxConcRows }

\* a store that leaves a stored entry as it is
store_prices_if_absent(cache, cache_key, prices) ==
    IF cache_key \in DOMAIN cache THEN cache
    ELSE cache_set(cache, cache_key, dump_all(prices, PriceFields))

\* line 48: _cache.set_prices(cache_key, [p.model_dump() for p in prices])
store_prices(cache, cache_key, prices) ==
    cache_set(cache, cache_key, dump_all(prices, PriceFields))

\* lines 26-28: the lookup, and the return of the cached list on a hit
ConcLookup(c) ==
    /\ callers[c].pc = "idle"
    /\ \E q \in ConcQueries :
          LET cached_data == cache_get(prices_cache, prices_cache_key(q[1], q[2], q[3]))
          IN  callers' = [callers EXCEPT ![c] =
                 IF cache_hit(cached_data)
                 THEN [Idle EXCEPT !.pc = "done", !.args = q, !.hit = TRUE,
                                   !.ret = load_all(cached_data[1])]
                 ELSE [Idle EXCEPT !.pc = "fetch", !.args = q]]
    /\ UNCHANGED <<prices_cache, metrics_cache, clock, first_fetch, first_metrics, last,
                   stores>>

\* lines 31-45: the provider call, the normalisation and the return of []
ConcFetch(c) ==
    /\ callers[c].pc = "fetch"
    /\ \E resp \in ConcBarResponses :
          LET q == callers[c].args
              r == get_price_history(q[1], q[2], q[3], resp)
              prices == normalize_prices(r.df)
          IN  callers' = [callers EXCEPT ![c] =
                 IF propagates(r.err)
                 THEN [@ EXCEPT !.pc = "done", !.err = r.err, !.calls = @ + 1]
                 ELSE IF ~prices_cacheable(prices)
                 THEN [@ EXCEPT !.pc = "done", !.calls = @ + 1]
                 ELSE [@ EXCEPT !.pc = "store", !.prices = prices, !.calls = @ + 1]]
    /\ UNCHANGED <<prices_cache, metrics_cache, clock, first_fetch, first_metrics, last,
                   stores>>

\* lines 48-49: the store, and the return of the fetched list
ConcStore(c) ==
    /\ callers[c].pc = "store"
    /\ LET q == callers[c].args
           cache_key == prices_cache_key(q[1], q[2], q[3])
       IN  /\ prices_cache' = store_prices(prices_cache, cache_key, callers[c].prices)
           /\ stores' = Append(stores,
                               [caller |-> c, key |-> cache_key,
                                value |-> dump_all(callers[c].prices, PriceFields)])
    /\ callers' = [callers EXCEPT ![c] = [@ EXCEPT !.pc = "done", !.ret = callers[c].prices]]
    /\ UNCHANGED <<metrics_cache, clock, first_fetch, first_metrics, last>>

NextConc ==
    \/ \E c \in Callers : ConcLookup(c)
    \/ \E c \in Callers : ConcFetch(c)
    \/ \E c \in Callers : ConcStore(c)

\* two callers, each running one get_prices call, their steps interleaved
SpecConc == Init /\ [][NextConc]_vars

(***************************************************************************)
(* Properties                                                              *)
(***************************************************************************)
EmptyFetch(c) == c.calls # <<>> /\ c.calls[1].outcome = "empty"

DataFetch(c) == c.calls # <<>> /\ c.calls[1].outcome = "data"

\* C1: once a get_prices call has fetched a non-empty list for (ticker,
\* start, end) and returned it, every later get_prices call with the same
\* three parameters returns an equal list and makes no provider call,
\* whatever the provider would answer now
PriceCacheRoundTrip ==
    (last.op = "get_prices" /\ last.args \in DOMAIN first_fetch /\ ~last.first)
        => /\ last.err = "none"
           /\ last.ret = first_fetch[last.args]
           /\ last.calls = <<>>

\* a repeated price query answered from the cache
PriceCacheRoundTripWitness ==
    /\ last.op = "get_prices"
    /\ last.args \in DOMAIN first_fetch
    /\ ~last.first
    /\ last.calls = <<>>
    /\ Len(last.ret) = MaxRows
    /\ last.ret = first_fetch[last.args]

\* C2: two requests that differ in a parameter never share a cached result:
\* a get_prices call answered from the cache is answered with what a call
\* with the same (ticker, start, end) fetched, and a get_financial_metrics
\* call answered from the cache gets the record built for its own ticker,
\* period and end date
KeySensitivity ==
    /\ (last.op = "get_prices" /\ last.err = "none" /\ last.calls = <<>>)
           => last.args \in DOMAIN first_fetch
    /\ (last.op = "get_financial_metrics" /\ last.err = "none" /\ last.calls = <<>>)
           => /\ last.ret[1]["ticker"] = Some(last.args[1])
              /\ last.ret[1]["report_period"] = Some(last.args[2])
              /\ last.ret[1]["period"] = Some(last.args[3])

\* C3: a get_prices call whose fetch came back with zero rows returns the
\* empty list and leaves the prices cache as it was; the same call made next
\* calls the provider again, and stores what it fetched if that is not empty
EmptyResultNotCached ==
    [][ /\ (last'.op = "get_prices" /\ EmptyFetch(last'))
            => /\ last'.ret = <<>>
               /\ last'.err = "none"
               /\ prices_cache' = prices_cache
        /\ (/\ last.op = "get_prices" /\ EmptyFetch(last)
            /\ last'.op = "get_prices" /\ last'.args = last.args)
            => /\ last'.calls # <<>>
               /\ DataFetch(last')
                    => LET k == prices_cache_key(last'.args[1], last'.args[2], last'.args[3])
                       IN  /\ k \in DOMAIN prices_cache'
                           /\ load_all(prices_cache'[k]) = last'.ret
                           /\ last'.ret # <<>>
      ]_vars

\* a get_prices call that fetched no rows, returned the empty list and stored nothing
EmptyResultNotCachedWitness ==
    /\ last.op = "get_prices"
    /\ EmptyFetch(last)
    /\ last.ret = <<>>
    /\ prices_cache_key(last.args[1], last.args[2], last.args[3]) \notin DOMAIN prices_cache

Retrieval == {"get_prices", "get_financial_metrics", "get_market_cap"}

Unsupported == {"search_line_items", "get_insider_trades", "get_company_news"}

\* a get_market_cap call whose end date is the date of the day it ran on
LiveCall(c) == c.op = "get_market_cap" /\ c.args[2] = DayStr(c.day)

\* the cache key of the financial metrics of a get_market_cap call
DefaultMetricsKey(ticker, end_date) ==
    ticker \o <<"_", "ttm", "_">> \o end_date \o <<"_", "1", "0">>

\* C4: a get_market_cap call whose end date is the current date asks the
\* provider for the report ReportSnapshot, looks nothing up in the cache and
\* stores nothing, whatever the cache holds
CurrentDateBypass ==
    [][ LiveCall(last')
            => /\ Len(last'.calls) = 1
               /\ last'.calls[1].method = "get_fundamentals"
               /\ last'.calls[1].report_type = "ReportSnapshot"
               /\ last'.reads = {}
               /\ last'.writes = {}
               /\ metrics_cache' = metrics_cache
               /\ prices_cache' = prices_cache
      ]_vars

\* a live call for a ticker whose metrics of that date are cached, which
\* returned the market cap of the live report and not the cached one
CurrentDateBypassWitness ==
    /\ LiveCall(last)
    /\ last.cached
    /\ DefaultMetricsKey(last.args[1], last.args[2]) \in DOMAIN metrics_cache
    /\ last.calls[1].report_type = "ReportSnapshot"
    /\ last.ret = Some(200)
    /\ from_dict(metrics_cache[DefaultMetricsKey(last.args[1], last.args[2])][1])["market_cap"]
           = Some(150)

\* C5: a retrieval call changes the cache only when its provider fetch
\* returned a non-empty result; a call whose fetch returned nothing (or that
\* made no fetch) leaves both cache sections as they were
CacheWriteOnlyOnNonEmptyFetch ==
    [][ (last'.op \in Retrieval /\ ~DataFetch(last'))
            => /\ prices_cache' = prices_cache
               /\ metrics_cache' = metrics_cache
      ]_vars

\* C6: search_line_items, get_insider_trades and get_company_news return the
\* empty list, call no provider and neither look up nor change the cache
UnsupportedReturnEmpty ==
    [][ last'.op \in Unsupported
            => /\ last'.ret = <<>>
               /\ last'.err = "none"
               /\ last'.calls = <<>>
               /\ last'.reads = {}
               /\ last'.writes = {}
               /\ prices_cache' = prices_cache
               /\ metrics_cache' = metrics_cache
      ]_vars

\* an unsupported category asked for a ticker with cached prices and metrics
UnsupportedReturnEmptyWitness ==
    /\ last.op \in Unsupported
    /\ last.ret = <<>>
    /\ DefaultMetricsKey(last.args[1], last.args[2]) \in DOMAIN metrics_cache
    /\ \E q \in DOMAIN first_fetch :
          /\ q[1] = last.args[1]
          /\ prices_cache_key(q[1], q[2], q[3]) \in DOMAIN prices_cache

\* the fields of a metrics record other than the four identifying ones
MetricValueFields ==
    { MetricsFields[i] : i \in DOMAIN MetricsFields }
        \ {"ticker", "report_period", "period", "currency"}

\* C7: when the provider has no rows, get_prices returns the empty list; when
\* it has no fundamentals report, get_financial_metrics returns one record
\* whose metric fields are all absent; neither call raises
ProviderEmptinessNoError ==
    /\ (last.op = "get_prices" /\ EmptyFetch(last))
           => /\ last.err = "none"
              /\ last.ret = <<>>
    /\ (last.op = "get_financial_metrics" /\ EmptyFetch(last))
           => /\ last.err = "none"
              /\ Len(last.ret) = 1
              /\ \A f \in MetricValueFields : last.ret[1][f] = None

\* a get_financial_metrics call that got no report and returned a record
ProviderEmptinessNoErrorWitness ==
    /\ last.op = "get_financial_metrics"
    /\ EmptyFetch(last)
    /\ last.err = "none"
    /\ Len(last.ret) = 1
    /\ last.ret[1]["market_cap"] = None

TransportFailed(c) == c.calls # <<>> /\ c.calls[1].err = "transport"

\* C8: a retrieval call whose provider call failed in the transport ends with
\* that error and leaves both cache sections as they were; the same call made
\* next calls the provider again
TransportFailurePropagates ==
    [][ /\ (last'.op \in Retrieval /\ TransportFailed(last'))
            => /\ last'.err = "transport"
               /\ prices_cache' = prices_cache
               /\ metrics_cache' = metrics_cache
        /\ (/\ last.op \in Retrieval /\ TransportFailed(last)
            /\ last'.op = last.op /\ last'.args = last.args)
            => last'.calls # <<>>
      ]_vars

\* C8 as amended: a retrieval call whose provider call failed in the
\* transport ends with that error and leaves both cache sections as they
\* were; the same call made next, on the same current date, calls the
\* provider again
TransportFailurePropagatesAmended ==
    [][ /\ (last'.op \in Retrieval /\ TransportFailed(last'))
            => /\ last'.err = "transport"
               /\ prices_cache' = prices_cache
               /\ metrics_cache' = metrics_cache
        /\ (/\ last.op \in Retrieval /\ TransportFailed(last)
            /\ last'.op = last.op /\ last'.args = last.args /\ last'.day = last.day)
            => last'.calls # <<>>
      ]_vars

\* a get_financial_metrics call ended by a transport failure, its key not stored
TransportFailurePropagatesWitness ==
    /\ last.op = "get_financial_metrics"
    /\ TransportFailed(last)
    /\ last.err = "transport"
    /\ metrics_cache_key(last.args[1], last.args[3], last.args[2], last.args[4])
           \notin DOMAIN metrics_cache

\* C9: a retrieval call makes no provider call when its cache key is stored
\* and exactly one otherwise
RoundTripCount ==
    last.op \in Retrieval
        => IF last.cached THEN last.calls = <<>> ELSE Len(last.calls) = 1

\* C9 as amended: get_prices, get_financial_metrics and get_market_cap for an
\* end date other than the current date make no provider call when their
\* cache key is stored and exactly one otherwise; get_market_cap for the
\* current date makes exactly one, stored key or not
RoundTripCountAmended ==
    last.op \in Retrieval
        => IF LiveCall(last) THEN Len(last.calls) = 1
           ELSE IF last.cached THEN last.calls = <<>>
           ELSE Len(last.calls) = 1

\* a live get_market_cap call with its metrics key stored, and a cache hit
RoundTripCountWitness ==
    /\ LiveCall(last)
    /\ last.cached
    /\ Len(last.calls) = 1

\* float(text) of an optional text, None when there is none or it fails
NumberOf(opt) ==
    IF opt = None \/ ~IsNumeric(opt[1]) THEN None ELSE Some(ParseFloat(opt[1]))

\* a get_financial_metrics call or a live get_market_cap call that parsed a report
ParsedReport(c) ==
    /\ c.op = "get_financial_metrics" \/ LiveCall(c)
    /\ DataFetch(c)
    /\ c.calls[1].data[1].wellformed

ReportOf(c) == c.calls[1].data[1]

MarketCapOf(c) == IF c.op = "get_financial_metrics" THEN c.ret[1]["market_cap"] ELSE c.ret

\* C10: the market cap is read from MKTCAP when the report has that element,
\* and from MarketCap otherwise
MarketCapFieldSelection ==
    ParsedReport(last)
        => MarketCapOf(last) =
             NumberOf(IF ReportOf(last).MKTCAP # None
                      THEN ReportOf(last).MKTCAP ELSE ReportOf(last).MarketCap)

\* C10 as amended: the market cap is read from MKTCAP when the report has
\* that element with a non-empty text, and from MarketCap otherwise
MarketCapFieldSelectionAmended ==
    ParsedReport(last)
        => MarketCapOf(last) =
             NumberOf(IF ReportOf(last).MKTCAP # None /\ ReportOf(last).MKTCAP[1] # <<>>
                      THEN ReportOf(last).MKTCAP ELSE ReportOf(last).MarketCap)

\* a live get_market_cap call on a report with MarketCap only
MarketCapFieldSelectionWitness ==
    /\ LiveCall(last)
    /\ ParsedReport(last)
    /\ ReportOf(last).MKTCAP = None
    /\ ReportOf(last).MarketCap = Some(<<"2", "0", "0">>)
    /\ last.ret = Some(200)

\* the financial-metrics query a get_market_cap call delegates to
DelegatedArgs(c) == <<c.args[1], c.args[2], <<"ttm">>, 10>>

\* a get_market_cap call for another date than the one it ran on, that returned
CachedPathCall(c) == c.op = "get_market_cap" /\ ~LiveCall(c) /\ c.err = "none"

\* C11: for an end date that is not the current date, get_market_cap looks up
\* and fills the metrics cache under the key of (ticker, "ttm", endDate, 10)
\* and returns the market cap of the record stored there, absent when that is
\* zero or missing; the get_financial_metrics call with default period and
\* limit that follows is answered from the cache, with that record
CachedPathMarketCap ==
    [][ /\ CachedPathCall(last')
            => LET k == DefaultMetricsKey(last'.args[1], last'.args[2])
               IN  /\ last'.reads = {<<"financial_metrics", k>>}
                   /\ k \in DOMAIN metrics_cache'
                   /\ Len(metrics_cache'[k]) = 1
                   /\ LET mc == from_dict(metrics_cache'[k][1])["market_cap"]
                      IN  last'.ret = IF mc = None \/ mc = Some(0) THEN None ELSE mc
                   /\ last'.cached => (last'.calls = <<>> /\ metrics_cache' = metrics_cache)
                   /\ ~last'.cached => (Len(last'.calls) = 1 /\ last'.writes = last'.reads)
        /\ (/\ CachedPathCall(last)
            /\ last'.op = "get_financial_metrics"
            /\ last'.args = DelegatedArgs(last))
            => /\ last'.calls = <<>>
               /\ last'.err = "none"
               /\ Len(last'.ret) = 1
               /\ last.ret = IF last'.ret[1]["market_cap"] \in {None, Some(0)}
                             THEN None ELSE last'.ret[1]["market_cap"]
      ]_vars

\* a get_market_cap call on the cached path that missed, fetched a report
\* with a market cap of zero, stored the record and returned absent
CachedPathMarketCapWitness ==
    /\ CachedPathCall(last)
    /\ ~last.cached
    /\ DataFetch(last)
    /\ last.ret = None
    /\ DefaultMetricsKey(last.args[1], last.args[2]) \in DOMAIN metrics_cache
    /\ from_dict(metrics_cache[DefaultMetricsKey(last.args[1], last.args[2])][1])["market_cap"]
           = Some(0)

\* the text the market cap is read from: MKTCAP when it is not empty
SelectedText(doc) ==
    IF doc.MKTCAP # None /\ doc.MKTCAP[1] # <<>> THEN doc.MKTCAP ELSE doc.MarketCap

\* a call that fetched a well-formed report whose selected text is no number
MalformedFetch(c) ==
    /\ c.op \in {"get_financial_metrics", "get_market_cap"}
    /\ DataFetch(c)
    /\ c.calls[1].data[1].wellformed
    /\ SelectedText(c.calls[1].data[1]) # None
    /\ SelectedText(c.calls[1].data[1])[1] # <<>>
    /\ ~IsNumeric(SelectedText(c.calls[1].data[1])[1])

\* C12: when the selected market-cap field of the report is not a number,
\* get_financial_metrics returns and stores a record with market_cap absent
\* and get_market_cap returns absent; neither call raises
MalformedMarketCapIgnored ==
    MalformedFetch(last)
        => /\ last.err = "none"
           /\ last.op = "get_financial_metrics"
                => /\ Len(last.ret) = 1
                   /\ last.ret[1]["market_cap"] = None
                   /\ LET k == metrics_cache_key(last.args[1], last.args[3], last.args[2],
                                                 last.args[4])
                      IN  /\ k \in DOMAIN metrics_cache
                          /\ load_all(metrics_cache[k]) = last.ret
           /\ last.op = "get_market_cap" => last.ret = None

\* a get_financial_metrics call on a report whose MKTCAP is not a number
MalformedMarketCapIgnoredWitness ==
    /\ last.op = "get_financial_metrics"
    /\ MalformedFetch(last)
    /\ last.ret[1]["market_cap"] = None
    /\ last.writes # {}

\* C13: a key stored in a cache section stays stored with the value it has;
\* no call removes an entry or overwrites one
NoInvalidation ==
    [][ /\ \A k \in DOMAIN prices_cache :
              k \in DOMAIN prices_cache' /\ prices_cache'[k] = prices_cache[k]
        /\ \A k \in DOMAIN metrics_cache :
              k \in DOMAIN metrics_cache' /\ metrics_cache'[k] = metrics_cache[k]
      ]_vars

\* a get_prices call for a stored key, while the other section holds an entry too
NoInvalidationWitness ==
    /\ last.op = "get_prices"
    /\ last.cached
    /\ prices_cache_key(last.args[1], last.args[2], last.args[3]) \in DOMAIN prices_cache
    /\ DOMAIN metrics_cache # {}

\* C18: every value stored in the prices section is a non-empty list and
\* every value stored in the financial-metrics section is a list of exactly one
\* record, so the truthiness test of the lookup takes every stored key for a hit
CacheContentInvariant ==
    /\ \A k \in DOMAIN prices_cache :
          /\ prices_cache[k] # <<>>
          /\ cache_hit(cache_get(prices_cache, k))
    /\ \A k \in DOMAIN metrics_cache :
          /\ Len(metrics_cache[k]) = 1
          /\ cache_hit(cache_get(metrics_cache, k))
    /\ (last.op \in {"get_prices", "get_financial_metrics"} /\ last.cached)
          => (last.calls = <<>> /\ last.writes = {})

\* both sections hold an entry, after a get_prices call that fetched no rows
\* and so stored nothing
CacheContentInvariantWitness ==
    /\ DOMAIN prices_cache # {}
    /\ DOMAIN metrics_cache # {}
    /\ last.op = "get_prices"
    /\ EmptyFetch(last)
    /\ last.err = "none"
    /\ ~last.cached
    /\ prices_cache_key(last.args[1], last.args[2], last.args[3]) \notin DOMAIN prices_cache

\* C19: get_market_cap never returns zero - on the live path and on the
\* cached path alike, a report whose market cap is zero, missing or not a
\* number gives absent
MarketCapNeverZero ==
    (last.op = "get_market_cap" /\ last.err = "none") => last.ret # Some(0)

\* C14: once a get_financial_metrics call for (ticker, end date, period,
\* limit) has returned, every later call with the same four parameters returns
\* an equal list of one record and makes no provider call, whatever the
\* provider would answer now, also when the first report was empty
MetricsCacheRoundTrip ==
    (/\ last.op = "get_financial_metrics"
     /\ last.args \in DOMAIN first_metrics
     /\ ~last.first)
        => /\ last.err = "none"
           /\ Len(last.ret) = 1
           /\ last.ret = first_metrics[last.args]
           /\ last.calls = <<>>

\* a repeated metrics query answered from the cache with the record, all
\* metric fields absent, that the first call built from an empty report
MetricsCacheRoundTripWitness ==
    /\ last.op = "get_financial_metrics"
    /\ last.args \in DOMAIN first_metrics
    /\ ~last.first
    /\ last.cached
    /\ last.ret = first_metrics[last.args]
    /\ last.ret[1]["ticker"] = Some(last.args[1])
    /\ \A f \in MetricValueFields : last.ret[1][f] = None

PriceOps == {"get_prices", "get_price_data"}

MetricsOps == {"get_financial_metrics", "get_market_cap"}

\* the cache key a finished call worked with
KeyOf(c) ==
    IF c.op \in PriceOps THEN prices_cache_key(c.args[1], c.args[2], c.args[3])
    ELSE IF c.op = "get_financial_metrics"
    THEN metrics_cache_key(c.args[1], c.args[3], c.args[2], c.args[4])
    ELSE DefaultMetricsKey(c.args[1], c.args[2])

\* C17: get_prices and get_price_data neither read nor change the
\* financial-metrics section, get_financial_metrics and get_market_cap neither
\* read nor change the prices section: a call hits exactly when its key is
\* stored in its own section, whatever the other section holds under that text
SectionIndependence ==
    [][ clock' = clock =>
          /\ last'.op \in PriceOps
                => /\ metrics_cache' = metrics_cache
                   /\ last'.reads = {<<"prices", KeyOf(last')>>}
                   /\ last'.writes \subseteq {<<"prices", KeyOf(last')>>}
                   /\ (last'.calls = <<>>) <=> (KeyOf(last') \in DOMAIN prices_cache)
                   /\ KeyOf(last') \in DOMAIN prices_cache
                        => prices_cache' = prices_cache
          /\ last'.op \in MetricsOps
                => /\ prices_cache' = prices_cache
                   /\ last'.reads \subseteq {<<"financial_metrics", KeyOf(last')>>}
                   /\ last'.writes \subseteq {<<"financial_metrics", KeyOf(last')>>}
                   /\ ~LiveCall(last')
                        => ((last'.calls = <<>>) <=> (KeyOf(last') \in DOMAIN metrics_cache))
                   /\ KeyOf(last') \in DOMAIN metrics_cache
                        => metrics_cache' = metrics_cache
      ]_vars

\* a get_price_data call whose key is stored in the financial-metrics section
\* and not in the prices section: it misses and goes to the provider
SectionIndependenceWitness ==
    /\ last.op = "get_price_data"
    /\ KeyOf(last) \in DOMAIN metrics_cache
    /\ KeyOf(last) \notin DOMAIN prices_cache
    /\ last.reads = {<<"prices", KeyOf(last)>>}
    /\ last.calls # <<>>

\* a get_financial_metrics call that missed and returned
MetricsMiss(c) == c.op = "get_financial_metrics" /\ ~c.cached /\ c.err = "none"

\* C16: on a cache miss get_financial_metrics returns exactly one record,
\* whatever the limit and the report; the record has the ticker, the end date
\* as report_period, the period and the currency "USD", the market cap of the
\* report or none, and every other metric field absent, never zero
MetricsRecordShape ==
    MetricsMiss(last)
        => /\ Len(last.ret) = 1
           /\ last.ret[1]["ticker"] = Some(last.args[1])
           /\ last.ret[1]["report_period"] = Some(last.args[2])
           /\ last.ret[1]["period"] = Some(last.args[3])
           /\ last.ret[1]["currency"] = Some(<<"USD">>)
           /\ last.ret[1]["market_cap"] =
                IF DataFetch(last)
                THEN NumberOf(SelectedText(ReportOf(last)))
                ELSE None
           /\ \A f \in MetricValueFields \ {"market_cap"} : last.ret[1][f] = None
           /\ DOMAIN last.ret[1] = { MetricsFields[i] : i \in DOMAIN MetricsFields }
           /\ Len(last.calls) = 1

\* a miss with limit 0 on a report with a market cap: one record all the same
MetricsRecordShapeWitness ==
    /\ MetricsMiss(last)
    /\ last.args[4] = 0
    /\ DataFetch(last)
    /\ Len(last.ret) = 1
    /\ last.ret[1]["market_cap"] = Some(150)
    /\ last.ret[1]["revenue_growth"] = None

\* the callers whose call fetched a list that is not empty and stored it
Storers == { c \in Callers : callers[c].pc = "done" /\ callers[c].calls = 1
                               /\ callers[c].err = "none" /\ callers[c].ret # <<>> }

\* C15: nothing keeps two concurrent get_prices callers of one uncached key
\* from both calling the provider: every caller that missed makes its own
\* provider call, every caller that fetched rows stores them, and a key holds
\* the value of the latest store to it
NoSingleFlight ==
    /\ \A c \in Callers :
          /\ callers[c].pc \in {"store", "done"} => callers[c].calls = IF callers[c].hit THEN 0 ELSE 1
          /\ callers[c].pc \in {"idle", "fetch"} => callers[c].calls = 0
    /\ Len(stores) = Cardinality(Storers)
    /\ \A c \in Storers : \E i \in DOMAIN stores :
          /\ stores[i].caller = c
          /\ stores[i].key = prices_cache_key(callers[c].args[1], callers[c].args[2],
                                              callers[c].args[3])
          /\ load_all(stores[i].value) = callers[c].ret
    /\ \A k \in DOMAIN prices_cache : \E i \in DOMAIN stores :
          /\ stores[i].key = k
          /\ \A j \in DOMAIN stores : j > i => stores[j].key # k
          /\ prices_cache[k] = stores[i].value

\* both callers missed the same key, both called the provider, both stored,
\* and the cache holds the later value, which is not the list the earlier
\* writer returned
NoSingleFlightWitness ==
    /\ \A c \in Callers : callers[c].pc = "done" /\ callers[c].calls = 1
    /\ callers["c1"].args = callers["c2"].args
    /\ Len(stores) = 2
    /\ stores[1].key = stores[2].key
    /\ stores[1].caller # stores[2].caller
    /\ prices_cache[stores[2].key] = stores[2].value
    /\ callers[stores[1].caller].ret # load_all(prices_cache[stores[1].key])
    /\ callers[stores[2].caller].ret = load_all(prices_cache[stores[2].key])

====
